---- MODULE Spec2Model ----
(***************************************************************************)
(* CPU accounting for task groups (kernel/sched/cpuacct.c).                *)
(*                                                                         *)
(* The module holds the state of the accounting tree (per-CPU usage banks, *)
(* per-CPU cpustat banks, the two reconciliation cursors), the per-entity  *)
(* idle / io-wait / ineffective windows, and the operations of cpuacct.c   *)
(* on them.  Several specifications share the state: each one runs the     *)
(* operations one family of properties is about.                           *)
(***************************************************************************)
EXTENDS Integers, Sequences, FiniteSets, TLC

\* ------------------------------------------------------------------ bounds
\* Largest amount of one charge / one cpustat increment / one write value.
MaxAmt == 2
\* Number of operations (charges, writes, window operations) in one behaviour.
MaxOps == 3
\* Largest value of the scheduler clock.
MaxClock == 3

\* ------------------------------------------------------- program constants
CPUACCT_STAT_USER == 0
CPUACCT_STAT_SYSTEM == 1
CPUACCT_STAT_NSTATS == 2
\* &root_cpuacct
Root == 0
\* the NULL cpuacct css_ca() yields for a NULL css
NULL == -1
EINVAL == 22

\* the groups that exist: the root and two groups made by cpuacct_css_alloc
NonRoot == {1, 2}
Groups == {Root} \cup NonRoot
\* for_each_possible_cpu
Cpus == {0, 1}
Stats == {CPUACCT_STAT_USER, CPUACCT_STAT_SYSTEM}
Amounts == 1 .. MaxAmt

\* the kernel_cpustat fields cpuacct.c reads or writes
TickFields == {"USER", "NICE", "SYSTEM"}
WideFields == {"IRQ", "SOFTIRQ", "GUEST", "GUEST_NICE"}
CpuTimeFields == TickFields \cup WideFields

VARIABLES
    parent,     \* css.parent of every group (NULL for the root)
    usages,     \* usages[ca][cpu][index]: per_cpu_ptr(ca->cpuusage, cpu)->usages
    cpustat,    \* cpustat[ca][cpu][field]: per_cpu_ptr(ca->cpustat, cpu)->cpustat
    prev1,      \* prev1[ca][cpu]: cpuusage->prev_cputime1 (utime and stime)
    prev2,      \* prev2[ca][cpu]: cpuusage->prev_cputime2 (user and nice)
    res,        \* res[ca][cpu]: the cpuacct_usage_result last filled in
    last,       \* history: last[ca][cpu], the user/nice/system last returned
    ret,        \* return value of the last cpuusage_write
    tg,         \* tg[g]: cgroup_tg() of group g's cgroup, NULL when it has none
    se,         \* se[g][cpu]: the sched_entity tg->se[cpu] of group g's task group
    clock,      \* the scheduler clock (rq clock and cpu_clock of the CPUs)
    schedstat,  \* schedstat_enabled()
    fuel,       \* operations left in this behaviour
    charged,    \* history: charged[l][index], amounts charged to tasks of group l
    wasReset,   \* history: the groups that were reset
    clean,      \* history: the groups reset and not charged since
    wr,         \* the CPU that owns se[1][0], inside cgroup_idle_start / _end
    rd,         \* a CPU reading se[1][0] in __cpuacct_get_usage_result
    stableSeen, \* history: the (cg_idle_sum, cg_idle_start) pairs the entity
                \* held outside a write section since the reader's last
                \* read_seqcount_begin
    alistats,   \* alistats[ca][cpu]: per_cpu_ptr(ca->alistats, cpu)->nr_migrations
    hk,         \* the CPUs with housekeeping_cpu(cpu, HK_FLAG_DOMAIN)
    show,       \* what the last cpuacct_proc_stats_show printed, and for whom
    fault,      \* a NULL pointer was dereferenced
    migrated,   \* history: migrated[l][cpu], migrations of tasks of group l on cpu
    alloc,      \* the last cpuacct_css_alloc: what it allocated, freed, returned
    race,       \* a charge on CPU 0 and a reset from another CPU, store by store
    ctl         \* a controller CPU inside cpuacct_cpuset_changed for se[1][0]

histVars == <<charged, wasReset, clean>>
seqVars == <<wr, rd, stableSeen>>
concVars == <<race, ctl>>
sliVars == <<alistats, hk, show, fault, migrated, alloc, concVars>>
winVars == <<tg, se, clock, schedstat, seqVars, sliVars>>
readVars == <<prev1, prev2, res, last>>
vars == <<parent, usages, cpustat, prev1, prev2, res, last, ret, tg, se, clock,
          schedstat, fuel, charged, wasReset, clean, wr, rd, stableSeen,
          alistats, hk, show, fault, migrated, alloc, race, ctl>>

\* ----------------------------------------------------------------- helpers
RECURSIVE SumOver(_, _)
SumOver(S, f) ==
    IF S = {} THEN 0
    ELSE LET x == CHOOSE y \in S : TRUE IN f[x] + SumOver(S \ {x}, f)

Max(a, b) == IF a >= b THEN a ELSE b

\* css_ca(ca->css.parent)
parent_ca(ca) == parent[ca]

\* The groups a walk "for (ca = l; ca; ca = parent_ca(ca))" visits, as a set:
\* l and its ancestors, by the parent relation alone.
RECURSIVE ParentPow(_, _)
ParentPow(l, k) ==
    IF k = 0 \/ l = NULL THEN l ELSE ParentPow(parent[l], k - 1)

AncOrSelf(l) == {ParentPow(l, k) : k \in 0 .. Cardinality(NonRoot)} \ {NULL}

\* The trees the hierarchy manager can build: every group's parent was
\* created before it, so every parent chain ends at the root.
Trees ==
    {p \in [Groups -> Groups \cup {NULL}] :
        /\ p[Root] = NULL
        /\ \A g \in NonRoot : p[g] \in Groups /\ p[g] < g}

ZeroUsage == [i \in Stats |-> 0]
ZeroStat == [f \in CpuTimeFields |-> 0]
ZeroPrev == [utime |-> 0, stime |-> 0]
ZeroRes ==
    [user |-> 0, nice |-> 0, system |-> 0, idle |-> 0, iowait |-> 0,
     irq |-> 0, softirq |-> 0, steal |-> 0, guest |-> 0, guest_nice |-> 0]

\* ------------------------------------------------------------ reading usage
\* cpuacct_cpuusage_read(ca, cpu, index); index = NSTATS reads the sum.
cpuacct_cpuusage_read(ca, cpu, index) ==
    IF index = CPUACCT_STAT_NSTATS
    THEN SumOver(Stats, usages[ca][cpu])
    ELSE usages[ca][cpu][index]

\* __cpuusage_read(css, index): the sum over all possible CPUs.
cpuusage_read_M(ca, index) ==
    SumOver(Cpus \ {0},
            [i \in Cpus |-> cpuacct_cpuusage_read(ca, i, index)])

cpuusage_read(ca, index) ==
    SumOver(Cpus, [i \in Cpus |-> cpuacct_cpuusage_read(ca, i, index)])

\* --------------------------------------------------------------- cpuacct_charge
\* for (ca = task_ca(tsk); ca; ca = parent_ca(ca))
\*         this_cpu_ptr(ca->cpuusage)->usages[index] += cputime;
RECURSIVE ChargeWalk(_, _, _, _, _)
ChargeWalk(u, ca, cpu, index, cputime) ==
    IF ca = NULL THEN u
    ELSE ChargeWalk([u EXCEPT ![ca][cpu][index] = @ + cputime],
                    parent_ca(ca), cpu, index, cputime)

\* the walk stopping after the task's own group
ChargeUsages_M(ca, cpu, index, cputime) ==
    [usages EXCEPT ![ca][cpu][index] = @ + cputime]

ChargeUsages(ca, cpu, index, cputime) ==
    ChargeWalk(usages, ca, cpu, index, cputime)

\* ca = task_ca(tsk), user = regs && user_mode(regs), cpu = this CPU; with
\* ca = NULL the loop body never runs
cpuacct_charge(ca, user, cpu, cputime) ==
    LET index == IF user THEN CPUACCT_STAT_USER ELSE CPUACCT_STAT_SYSTEM IN
    /\ fuel > 0
    /\ fuel' = fuel - 1
    /\ usages' = ChargeUsages(ca, cpu, index, cputime)
    /\ charged' = IF ca = NULL THEN charged
                  ELSE [charged EXCEPT ![ca][index] = @ + cputime]
    /\ clean' = clean \ AncOrSelf(ca)
    /\ UNCHANGED <<parent, cpustat, readVars, ret, wasReset, winVars>>

\* ------------------------------------------------------- cpuacct_account_field
\* for (ca = task_ca(tsk); ca != &root_cpuacct; ca = parent_ca(ca))
\*         this_cpu_ptr(ca->cpustat)->cpustat[index] += val;
RECURSIVE FieldWalk(_, _, _, _, _)
FieldWalk(s, ca, cpu, field, val) ==
    IF ca = Root THEN s
    ELSE FieldWalk([s EXCEPT ![ca][cpu][field] = @ + val],
                   parent_ca(ca), cpu, field, val)

\* the walk of cpuacct_charge, which goes on into the root
RECURSIVE FieldWalk_M(_, _, _, _, _)
FieldWalk_M(s, ca, cpu, field, val) ==
    IF ca = NULL THEN s
    ELSE FieldWalk_M([s EXCEPT ![ca][cpu][field] = @ + val],
                     parent_ca(ca), cpu, field, val)

AccountCpustat_M(ca, cpu, field, val) ==
    FieldWalk_M(cpustat, ca, cpu, field, val)

AccountCpustat(ca, cpu, field, val) ==
    FieldWalk(cpustat, ca, cpu, field, val)

\* ca = task_ca(tsk); NULL is not &root_cpuacct, so with ca = NULL the loop
\* body runs and reads ca->cpustat through the NULL pointer
cpuacct_account_field(ca, cpu, field, val) ==
    /\ fuel > 0
    /\ fuel' = fuel - 1
    /\ IF ca = NULL
       THEN /\ fault' = TRUE
            /\ UNCHANGED <<cpustat, clean>>
       ELSE /\ cpustat' = AccountCpustat(ca, cpu, field, val)
            /\ clean' = clean \ AncOrSelf(ca)
            /\ UNCHANGED fault
    /\ UNCHANGED <<parent, usages, readVars, ret, charged, wasReset, tg, se,
                   clock, schedstat, seqVars, alistats, hk, show, migrated,
                   alloc, concVars>>

\* ---------------------------------------------------------------- cpuusage_write
\* cpuacct_cpuusage_write(ca, cpu, val), for every possible CPU
WriteUsages(ca, val) ==
    [usages EXCEPT ![ca] = [cpu \in Cpus |-> [i \in Stats |-> val]]]

\* the write without the "if (val) return -EINVAL" check
cpuusage_write_M(ca, val) ==
    /\ fuel > 0
    /\ fuel' = fuel - 1
    /\ usages' = WriteUsages(ca, val)
    /\ ret' = 0
    /\ wasReset' = wasReset \cup {ca}
    /\ clean' = clean \cup {ca}
    /\ UNCHANGED <<parent, cpustat, readVars, charged, winVars>>

cpuusage_write(ca, val) ==
    /\ fuel > 0
    /\ fuel' = fuel - 1
    /\ IF val # 0
       THEN /\ ret' = -EINVAL
            /\ UNCHANGED <<parent, usages, cpustat, readVars, histVars,
                           winVars>>
       ELSE /\ usages' = WriteUsages(ca, 0)
            /\ ret' = 0
            /\ wasReset' = wasReset \cup {ca}
            /\ clean' = clean \cup {ca}
            /\ UNCHANGED <<parent, cpustat, readVars, charged, winVars>>

\* ------------------------------------------------------------ time arithmetic
\* The modulus of u64 arithmetic.  It stands for 2^64, which is beyond the
\* integers of the model checker; every value a behaviour reaches without a
\* wrap-around is far below it.
U64Wrap == 2 ^ 30

\* a - b in u64
U64Sub(a, b) == IF a >= b THEN a - b ELSE a - b + U64Wrap

\* a + b in u64
U64Add(a, b) == (a + b) % U64Wrap

\* ------------------------------------------------------------- cputime_adjust
\* The reconciler: the tick-sampled pair (utime, stime) rescaled onto the
\* high-resolution total rtime and clamped to the cursor prev.  Returns the
\* new contents of the cursor, which are also the pair handed back.
cputime_adjust(rtime, utime, stime, prev) ==
    LET sum == utime + stime
        a == IF sum = 0
             THEN (IF prev.utime # 0 /\ prev.stime = 0 THEN rtime ELSE 0)
             ELSE (rtime * utime) \div sum
        b == rtime - a
    IN  IF sum = 0 /\ rtime = 0 THEN prev
        ELSE [utime |-> Max(a, prev.utime), stime |-> Max(b, prev.stime)]

\* ----------------------------------------------------------------- the windows
ZeroSe ==
    [idle_seqcount |-> 0, cg_idle_start |-> 0, cg_idle_sum |-> 0,
     cg_nr_iowait |-> 0, cg_iowait_start |-> 0, cg_iowait_sum |-> 0,
     cg_ineffective_start |-> 0, cg_ineffective_sum |-> 0,
     cg_init_time |-> 0, sum_exec_raw |-> 0,
     \* history: whether cgroup_idle_start opened a window that no
     \* cgroup_idle_end closed yet, when, and cg_idle_sum at that time;
     \* whether the last operation on the idle window closed it, and when;
     \* whether an io-wait window, an ineffective window was opened and not
     \* closed since
     h_open |-> FALSE, h_s |-> 0, h_base |-> 0,
     h_done |-> FALSE, h_e |-> 0,
     h_io |-> FALSE, h_in |-> FALSE]

\* cgroup_idle_start(se) at rq clock clk
IdleStart(e, clk) ==
    IF ~schedstat THEN e
    ELSE LET e1 == [e EXCEPT !.idle_seqcount = @ + 2,
                             !.cg_idle_start = clk,
                             !.h_open = TRUE, !.h_s = clk,
                             !.h_base = e.cg_idle_sum,
                             !.h_done = FALSE, !.h_e = 0]
         IN  IF e1.cg_nr_iowait # 0
             THEN [e1 EXCEPT !.cg_iowait_start = clk, !.h_io = TRUE]
             ELSE e1

\* cgroup_idle_end(se) at rq clock clk
IdleEnd(e, clk) ==
    IF ~schedstat THEN e
    ELSE LET e1 == [e EXCEPT !.idle_seqcount = @ + 2,
                             !.cg_idle_sum =
                                 U64Add(@, U64Sub(clk, e.cg_idle_start)),
                             !.cg_idle_start = 0,
                             !.h_open = FALSE,
                             !.h_done = e.h_open, !.h_e = clk]
         IN  IF e1.cg_nr_iowait # 0
             THEN [e1 EXCEPT !.cg_iowait_sum =
                                 U64Add(@, U64Sub(clk, e.cg_iowait_start)),
                             !.cg_iowait_start = 0, !.h_io = FALSE]
             ELSE e1

\* cpuacct_cpuset_changed, the body of the loop over the added CPUs
CpuAdded(e, clk) ==
    LET e1 == IdleStart(e, clk) IN
    [e1 EXCEPT !.cg_ineffective_sum =
                   U64Add(@, U64Sub(clk, e1.cg_ineffective_start)),
               !.cg_ineffective_start = 0, !.h_in = FALSE]

\* the deleted CPU's idle window left as it is: no cgroup_idle_end
CpuDeleted_M(e, clk) ==
    [e EXCEPT !.cg_ineffective_start = clk]

\* cpuacct_cpuset_changed, the body of the loop over the deleted CPUs
CpuDeleted(e, clk) ==
    LET e1 == IdleEnd(e, clk) IN
    [e1 EXCEPT !.cg_ineffective_start = clk, !.h_in = TRUE]

AcctUnchanged ==
    UNCHANGED <<parent, usages, cpustat, readVars, ret, histVars, seqVars,
                sliVars>>

cgroup_idle_start(g, cpu) ==
    /\ fuel > 0
    /\ fuel' = fuel - 1
    /\ se' = [se EXCEPT ![g][cpu] = IdleStart(@, clock)]
    /\ UNCHANGED <<tg, clock, schedstat>>
    /\ AcctUnchanged

cgroup_idle_end(g, cpu) ==
    /\ fuel > 0
    /\ fuel' = fuel - 1
    /\ se' = [se EXCEPT ![g][cpu] = IdleEnd(@, clock)]
    /\ UNCHANGED <<tg, clock, schedstat>>
    /\ AcctUnchanged

\* cpuacct_cpuset_changed(cgrp, deleted, added) for the cgroup of group g;
\* an absent mask is the empty set
CpusetChangedSe(g, deleted, added) ==
    [cpu \in Cpus |->
        LET e0 == se[g][cpu]
            e1 == IF cpu \in added THEN CpuAdded(e0, clock) ELSE e0
        IN  IF cpu \in deleted THEN CpuDeleted(e1, clock) ELSE e1]

cpuacct_cpuset_changed(g, deleted, added) ==
    /\ fuel > 0
    /\ fuel' = fuel - 1
    /\ se' = IF ~schedstat \/ tg[g] = NULL THEN se
             ELSE [se EXCEPT ![tg[g]] = CpusetChangedSe(tg[g], deleted, added)]
    /\ UNCHANGED <<tg, clock, schedstat>>
    /\ AcctUnchanged

\* ------------------------------------------------------------ the environment
\* The scheduler clock advances.
Tick ==
    /\ clock < MaxClock
    /\ clock' = clock + 1
    /\ UNCHANGED <<tg, se, schedstat, fuel>>
    /\ AcctUnchanged

\* A task of the entity starts waiting for I/O: the io-wait window opens when
\* the entity is idle and no task of it was waiting.
IowaitInc(e, clk) ==
    LET e1 == IF schedstat /\ e.cg_idle_start # 0 /\ e.cg_nr_iowait = 0
              THEN [e EXCEPT !.cg_iowait_start = clk, !.h_io = TRUE]
              ELSE e
    IN  [e1 EXCEPT !.cg_nr_iowait = @ + 1]

\* A task of the entity ends its wait for I/O: the io-wait window closes with
\* the last waiting task.
IowaitDec(e, clk) ==
    LET e1 == IF schedstat /\ e.cg_iowait_start # 0 /\ e.cg_nr_iowait = 1
              THEN [e EXCEPT !.cg_iowait_sum =
                                 U64Add(@, U64Sub(clk, e.cg_iowait_start)),
                             !.cg_iowait_start = 0]
              ELSE e
    IN  [e1 EXCEPT !.cg_nr_iowait = @ - 1,
                   !.h_io = IF e.cg_nr_iowait = 1 THEN FALSE ELSE @]

NrIowait(g, cpu) ==
    /\ fuel > 0
    /\ fuel' = fuel - 1
    /\ se' = [se EXCEPT ![g][cpu] =
                 IF @.cg_nr_iowait = 0 THEN IowaitInc(@, clock)
                 ELSE IowaitDec(@, clock)]
    /\ UNCHANGED <<tg, clock, schedstat>>
    /\ AcctUnchanged

\* The entity ran: the scheduler adds to its raw execution time.
ExecRaw(g, cpu, d) ==
    /\ fuel > 0
    /\ fuel' = fuel - 1
    /\ se' = [se EXCEPT ![g][cpu].sum_exec_raw = @ + d]
    /\ UNCHANGED <<tg, clock, schedstat>>
    /\ AcctUnchanged

\* ------------------------------------------------- __cpuacct_get_usage_result
\* the idle sum the retry loop leaves in res->idle
IdleGross(e, clk) ==
    IF e.cg_idle_start # 0 /\ clk > e.cg_idle_start
    THEN U64Add(e.cg_idle_sum, clk - e.cg_idle_start)
    ELSE e.cg_idle_sum

Ineff(e, clk) ==
    IF e.cg_ineffective_start # 0
    THEN U64Add(e.cg_ineffective_sum, U64Sub(clk, e.cg_ineffective_start))
    ELSE e.cg_ineffective_sum

Iowait(e, clk) ==
    IF e.cg_iowait_start # 0
    THEN U64Add(e.cg_iowait_sum, U64Sub(clk, e.cg_iowait_start))
    ELSE e.cg_iowait_sum

\* steal with the io-wait taken out of the idle sum first
Steal_M(e, clk) ==
    LET idle == U64Sub(IdleGross(e, clk), Iowait(e, clk))
        elapse == U64Sub(clk, e.cg_init_time)
        complement == U64Add(U64Add(idle, e.sum_exec_raw), Ineff(e, clk))
    IN  IF elapse > complement THEN elapse - complement ELSE 0

Steal(e, clk) ==
    LET elapse == U64Sub(clk, e.cg_init_time)
        complement == U64Add(U64Add(IdleGross(e, clk), e.sum_exec_raw),
                             Ineff(e, clk))
    IN  IF elapse > complement THEN elapse - complement ELSE 0

\* the open window not added to the idle sum
WindowResult_M(e, clk) ==
    [idle |-> U64Sub(e.cg_idle_sum, Iowait(e, clk)),
     iowait |-> Iowait(e, clk),
     steal |-> Steal(e, clk)]

\* lines 490-527: idle, iowait and steal of the entity e = tg->se[cpu], which
\* is not NULL: only the root task group has no entities, and the root group
\* is not read through __cpuacct_get_usage_result
WindowResult(e, clk) ==
    IF schedstat
    THEN [idle |-> U64Sub(IdleGross(e, clk), Iowait(e, clk)),
          iowait |-> Iowait(e, clk),
          steal |-> Steal(e, clk)]
    ELSE [idle |-> 0, iowait |-> 0, steal |-> 0]

\* the cursors left where they were: a copy is handed to cputime_adjust
Reconcile_M(ca, cpu) ==
    LET k == cpustat[ca][cpu]
        c1 == cputime_adjust(usages[ca][cpu][CPUACCT_STAT_USER]
                               + usages[ca][cpu][CPUACCT_STAT_SYSTEM],
                             k["USER"] + k["NICE"], k["SYSTEM"],
                             prev1[ca][cpu])
        c2 == cputime_adjust(c1.utime, k["USER"], k["NICE"], prev2[ca][cpu])
    IN  [p1 |-> prev1[ca][cpu], p2 |-> prev2[ca][cpu],
         system |-> c1.stime, user |-> c2.utime, nice |-> c2.stime]

\* lines 468-486: the two reconciliations; p1 and p2 are the cursors after them
Reconcile(ca, cpu) ==
    LET k == cpustat[ca][cpu]
        c1 == cputime_adjust(usages[ca][cpu][CPUACCT_STAT_USER]
                               + usages[ca][cpu][CPUACCT_STAT_SYSTEM],
                             k["USER"] + k["NICE"], k["SYSTEM"],
                             prev1[ca][cpu])
        c2 == cputime_adjust(c1.utime, k["USER"], k["NICE"], prev2[ca][cpu])
    IN  [p1 |-> c1, p2 |-> c2,
         system |-> c1.stime, user |-> c2.utime, nice |-> c2.stime]

\* __cpuacct_get_usage_result(ca, cpu, tg, &res) with tg = cgroup_tg(cgrp)
cpuacct_get_usage_result(ca, cpu) ==
    IF tg[ca] = NULL
    THEN /\ res' = ZeroRes
         /\ last' = [last EXCEPT ![ca][cpu] =
                        [user |-> 0, nice |-> 0, system |-> 0]]
         /\ UNCHANGED <<parent, usages, cpustat, prev1, prev2, ret, histVars,
                        winVars, fuel>>
    ELSE LET r == Reconcile(ca, cpu)
             w == WindowResult(se[tg[ca]][cpu], clock)
             k == cpustat[ca][cpu]
         IN  /\ prev1' = [prev1 EXCEPT ![ca][cpu] = r.p1]
             /\ prev2' = [prev2 EXCEPT ![ca][cpu] = r.p2]
             /\ res' = [user |-> r.user, nice |-> r.nice,
                        system |-> r.system, idle |-> w.idle,
                        iowait |-> w.iowait, irq |-> k["IRQ"],
                        softirq |-> k["SOFTIRQ"], steal |-> w.steal,
                        guest |-> k["GUEST"], guest_nice |-> k["GUEST_NICE"]]
             /\ last' = [last EXCEPT ![ca][cpu] =
                            [user |-> r.user, nice |-> r.nice,
                             system |-> r.system]]
             /\ UNCHANGED <<parent, usages, cpustat, ret, histVars, winVars,
                            fuel>>

\* ------------------------------------------------------------ cpuacct_css_alloc
\* ERR_PTR(-ENOMEM), the value returned at the label out
ENOMEM == "ERR_PTR(-ENOMEM)"

\* the allocations of cpuacct_css_alloc, in the order it makes them
AllocOrder == <<"ca", "cpuusage", "cpustat", "alistats">>

AllocObjects == {AllocOrder[i] : i \in 1 .. Len(AllocOrder)}

\* no call yet
NoAlloc ==
    [ret |-> "none", failed |-> "none", made |-> {}, live |-> {},
     frees |-> [o \in AllocObjects |-> 0], cursors |-> FALSE]

\* the allocations made before the one of object o
MadeBefore(o) ==
    {AllocOrder[i] : i \in {j \in 1 .. Len(AllocOrder) :
                              \E k \in j + 1 .. Len(AllocOrder) :
                                  AllocOrder[k] = o}}

\* out_free_cpustat without the fall into out_free_cpuusage
FreedOnFailure_M(o) ==
    CASE o = "ca" -> <<>>
      [] o = "cpuusage" -> <<"ca">>
      [] o = "cpustat" -> <<"cpuusage", "ca">>
      [] o = "alistats" -> <<"cpustat", "ca">>

\* lines 127-136: what the label reached when the allocation of o fails
\* frees, in order (out, out_free_ca, out_free_cpuusage, out_free_cpustat)
FreedOnFailure(o) ==
    CASE o = "ca" -> <<>>
      [] o = "cpuusage" -> <<"ca">>
      [] o = "cpustat" -> <<"cpuusage", "ca">>
      [] o = "alistats" -> <<"cpustat", "cpuusage", "ca">>

\* how often object o is in the sequence of frees f
FreeCount(f, o) == Cardinality({i \in 1 .. Len(f) : f[i] = o})

\* cpuacct_css_alloc(parent_css); failed is the allocation that returns NULL,
\* "none" when all succeed
cpuacct_css_alloc(parent_css, failed) ==
    /\ fuel > 0
    /\ fuel' = fuel - 1
    /\ alloc' =
          IF parent_css = NULL
          THEN [NoAlloc EXCEPT !.ret = "root"]
          ELSE IF failed = "none"
          THEN [ret |-> "css", failed |-> "none", made |-> AllocObjects,
                live |-> AllocObjects,
                frees |-> [o \in AllocObjects |-> 0], cursors |-> TRUE]
          ELSE LET f == FreedOnFailure(failed) IN
               [ret |-> ENOMEM, failed |-> failed,
                made |-> MadeBefore(failed),
                live |-> {o \in MadeBefore(failed) : FreeCount(f, o) = 0},
                frees |-> [o \in AllocObjects |-> FreeCount(f, o)],
                cursors |-> FALSE]
    /\ UNCHANGED <<parent, usages, cpustat, readVars, ret, histVars, tg, se,
                   clock, schedstat, seqVars, alistats, hk, show, fault,
                   migrated, concVars>>

\* ------------------------------------- a charge and a reset, store by store
\* A task of group 1 is charged on CPU 0, which holds its rq lock for the
\* whole of cpuacct_charge, while another CPU runs cpuusage_write(0) on
\* group 1.  "+=" is a load and a store; cpuacct_cpuusage_write takes the rq
\* lock of the CPU it writes only in builds without CONFIG_64BIT.
RaceOut ==
    [config64 |-> TRUE, lock |-> "free",
     cpc |-> "out", ca |-> NULL, index |-> 0, x |-> 0, tmp |-> 0,
     wpc |-> "out", wcpu |-> 0, i |-> 0, pre |-> 0]

RaceFrame ==
    UNCHANGED <<parent, cpustat, readVars, ret, histVars, tg, se, clock,
                schedstat, seqVars, fuel, alistats, hk, show, fault, migrated,
                alloc, ctl>>

\* cpuacct_charge is entered with rq->lock of CPU 0 held
ChargeEnter(user, x) ==
    /\ race.cpc = "out"
    /\ race.lock = "free"
    /\ race' = [race EXCEPT !.cpc = "load", !.lock = "charge", !.ca = 1,
                            !.index = IF user THEN CPUACCT_STAT_USER
                                      ELSE CPUACCT_STAT_SYSTEM,
                            !.x = x]
    /\ UNCHANGED usages
    /\ RaceFrame

\* line 666, the read of usages[index]
ChargeLoad ==
    /\ race.cpc = "load"
    /\ race' = [race EXCEPT !.cpc = "store",
                            !.tmp = usages[race.ca][0][race.index]]
    /\ UNCHANGED usages
    /\ RaceFrame

\* line 666, the write of usages[index], and line 665, ca = parent_ca(ca);
\* the caller drops rq->lock after the walk
ChargeStore ==
    /\ race.cpc = "store"
    /\ usages' = [usages EXCEPT ![race.ca][0][race.index] =
                     U64Add(race.tmp, race.x)]
    /\ race' = IF parent_ca(race.ca) = NULL
               THEN [race EXCEPT !.cpc = "done", !.ca = NULL,
                                 !.lock = "free"]
               ELSE [race EXCEPT !.cpc = "load", !.ca = parent_ca(race.ca)]
    /\ RaceFrame

\* lines 248-251: cpuusage_write(css, cft, 0) starts its loop over the CPUs
WriteEnter ==
    /\ race.wpc = "out"
    /\ race' = [race EXCEPT !.wpc = IF race.config64 THEN "store"
                                    ELSE "lock",
                            !.wcpu = 0, !.i = 0,
                            !.pre = usages[1][0]]
    /\ UNCHANGED usages
    /\ RaceFrame

\* line 197: raw_spin_lock_irq(&cpu_rq(cpu)->lock), without CONFIG_64BIT
WriteLock ==
    /\ race.wpc = "lock"
    /\ race.wcpu # 0 \/ race.lock = "free"
    /\ race' = [race EXCEPT !.wpc = "store",
                            !.lock = IF race.wcpu = 0 THEN "write" ELSE @]
    /\ UNCHANGED usages
    /\ RaceFrame

\* lines 200-204 and 251-254: one store of the loop, the unlock after the
\* last one, the next CPU
WriteStore ==
    /\ race.wpc = "store"
    /\ usages' = [usages EXCEPT ![1][race.wcpu][race.i] = 0]
    /\ race' =
          IF race.i + 1 < CPUACCT_STAT_NSTATS
          THEN [race EXCEPT !.i = @ + 1]
          ELSE LET unlocked == IF race.lock = "write" THEN "free"
                               ELSE race.lock
               IN  IF race.wcpu + 1 \in Cpus
                   THEN [race EXCEPT !.wcpu = @ + 1, !.i = 0,
                                     !.lock = unlocked,
                                     !.wpc = IF race.config64 THEN "store"
                                             ELSE "lock"]
                   ELSE [race EXCEPT !.wpc = "done", !.lock = unlocked]
    /\ RaceFrame

\* ------------------------------------------------------------- the proc_stat
\* nothing printed yet
ZeroShow ==
    [ca |-> NULL, cpu |-> NULL, user |-> 0, nice |-> 0, system |-> 0,
     idle |-> 0, iowait |-> 0, irq |-> 0, softirq |-> 0, steal |-> 0,
     guest |-> 0, nr_migrations |-> 0]

\* task_ca_increase_nr_migrations(tsk) on cpu, ca = task_ca(tsk): the count
\* is read through ca without a test of ca
task_ca_increase_nr_migrations(ca, cpu) ==
    /\ fuel > 0
    /\ fuel' = fuel - 1
    /\ IF ca = NULL
       THEN /\ fault' = TRUE
            /\ UNCHANGED <<alistats, migrated>>
       ELSE /\ alistats' = [alistats EXCEPT ![ca][cpu] = @ + 1]
            /\ migrated' = [migrated EXCEPT ![ca][cpu] = @ + 1]
            /\ UNCHANGED fault
    /\ UNCHANGED <<parent, usages, cpustat, readVars, ret, histVars, tg, se,
                   clock, schedstat, seqVars, hk, show, alloc, concVars>>

\* the loop without the housekeeping test
ShowCpus_M(ca) == Cpus

\* lines 547-549 and 573: the CPUs whose body the loop runs
ShowCpus(ca) == IF ca # Root THEN Cpus \cap hk ELSE Cpus

\* lines 567-568, 585-586: nr_migrations as printed for group ca
proc_stat_nr_migrations(ca) == SumOver(ShowCpus(ca), alistats[ca])

\* the snapshot __cpuacct_get_usage_result fills in for (ca, cpu)
UsageResult(ca, cpu) ==
    IF tg[ca] = NULL THEN ZeroRes
    ELSE LET r == Reconcile(ca, cpu)
             w == WindowResult(se[tg[ca]][cpu], clock)
             k == cpustat[ca][cpu]
         IN  [user |-> r.user, nice |-> r.nice, system |-> r.system,
              idle |-> w.idle, iowait |-> w.iowait, irq |-> k["IRQ"],
              softirq |-> k["SOFTIRQ"], steal |-> w.steal,
              guest |-> k["GUEST"], guest_nice |-> k["GUEST_NICE"]]

\* cpuacct_proc_stats_show for group ca, run by a reader on CPU cpu.  The
\* idle, iowait and steal of the root come from the kernel-wide facility,
\* which is no state of cpuacct.c: they print as zero here.
cpuacct_proc_stats_show(ca, cpu) ==
    LET cs == ShowCpus(ca)
        Tot(f) == SumOver(cs, [c \in Cpus |-> f[c]])
    IN
    /\ IF ca # Root
       THEN LET r == [c \in Cpus |-> UsageResult(ca, c)]
                touched == IF tg[ca] = NULL THEN {} ELSE cs
            IN  /\ prev1' = [prev1 EXCEPT ![ca] =
                       [c \in Cpus |-> IF c \in touched
                                       THEN Reconcile(ca, c).p1
                                       ELSE prev1[ca][c]]]
                /\ prev2' = [prev2 EXCEPT ![ca] =
                       [c \in Cpus |-> IF c \in touched
                                       THEN Reconcile(ca, c).p2
                                       ELSE prev2[ca][c]]]
                /\ last' = [last EXCEPT ![ca] =
                       [c \in Cpus |-> IF c \in cs
                                       THEN [user |-> r[c].user,
                                             nice |-> r[c].nice,
                                             system |-> r[c].system]
                                       ELSE last[ca][c]]]
                /\ res' = IF cs = {} THEN res
                          ELSE r[CHOOSE c \in cs : \A d \in cs : d <= c]
                /\ show' =
                       [ca |-> ca, cpu |-> cpu,
                        user |-> Tot([c \in Cpus |-> r[c].user]),
                        nice |-> Tot([c \in Cpus |-> r[c].nice]),
                        system |-> Tot([c \in Cpus |-> r[c].system]),
                        idle |-> Tot([c \in Cpus |-> r[c].idle]),
                        iowait |-> Tot([c \in Cpus |-> r[c].iowait]),
                        irq |-> Tot([c \in Cpus |-> r[c].irq]),
                        softirq |-> Tot([c \in Cpus |-> r[c].softirq]),
                        steal |-> Tot([c \in Cpus |-> r[c].steal]),
                        guest |-> Tot([c \in Cpus |->
                                          r[c].guest + r[c].guest_nice]),
                        nr_migrations |-> proc_stat_nr_migrations(ca)]
       ELSE /\ show' =
                  [ca |-> ca, cpu |-> cpu,
                   user |-> Tot([c \in Cpus |-> cpustat[ca][c]["USER"]]),
                   nice |-> Tot([c \in Cpus |-> cpustat[ca][c]["NICE"]]),
                   system |-> Tot([c \in Cpus |-> cpustat[ca][c]["SYSTEM"]]),
                   idle |-> 0, iowait |-> 0,
                   irq |-> Tot([c \in Cpus |-> cpustat[ca][c]["IRQ"]]),
                   softirq |-> Tot([c \in Cpus |-> cpustat[ca][c]["SOFTIRQ"]]),
                   steal |-> 0,
                   guest |-> Tot([c \in Cpus |->
                                     cpustat[ca][c]["GUEST"]
                                         + cpustat[ca][c]["GUEST_NICE"]]),
                   nr_migrations |-> proc_stat_nr_migrations(ca)]
            /\ UNCHANGED readVars
    /\ UNCHANGED <<parent, usages, cpustat, ret, histVars, tg, se, clock,
                   schedstat, seqVars, fuel, alistats, hk, fault, migrated,
                   alloc, concVars>>

\* ------------------------------------- the idle window, one access at a time
\* The entity se[1][0] of group 1's task group on CPU 0.  CPU 0 owns it and
\* runs cgroup_idle_start and cgroup_idle_end on it with its rq lock held;
\* another CPU reads it in the retry loop of __cpuacct_get_usage_result.
\* Every access of the shared fields is a step of its own.
WrOut == [pc |-> "out", clock |-> 0, idle_start |-> 0]

CtlOut == [pc |-> "out", clock |-> 0, idle_start |-> 0, added |-> FALSE,
           seq |-> 0]

RdOut == [pc |-> "out", seq |-> 0, sum |-> 0, idle |-> 0, idle_start |-> 0,
          clock |-> 0, retried |-> FALSE]

SeqSe == se[1][0]

IdlePair(e) == <<e.cg_idle_sum, e.cg_idle_start>>

\* the writer is between write_seqcount_begin and write_seqcount_end
InWriteSection ==
    wr.pc \in {"start_set", "start_end", "end_read", "end_add", "end_clear",
               "end_end"}

\* the reader is in the body of its loop, the count read
InReadLoop == rd.pc \in {"r_sum", "r_start", "r_clock", "r_retry"}

SeqFrame ==
    UNCHANGED <<parent, usages, cpustat, ret, histVars, tg, clock, schedstat,
                sliVars>>

\* lines 366-369 and 387-390: entry of cgroup_idle_start / cgroup_idle_end
IdleCall(end) ==
    /\ wr.pc = "out"
    /\ fuel > 0
    /\ fuel' = fuel - 1
    /\ wr' = IF ~schedstat THEN wr
             ELSE [pc |-> IF end THEN "end_begin" ELSE "start_begin",
                   clock |-> clock, idle_start |-> 0]
    /\ UNCHANGED <<se, rd, stableSeen, readVars>>
    /\ SeqFrame

\* lines 371 and 392
write_seqcount_begin ==
    /\ wr.pc \in {"start_begin", "end_begin"}
    /\ se' = [se EXCEPT ![1][0].idle_seqcount = @ + 1]
    /\ wr' = [wr EXCEPT !.pc = IF wr.pc = "start_begin" THEN "start_set"
                                ELSE "end_read"]
    /\ UNCHANGED <<rd, stableSeen, readVars, fuel>>
    /\ SeqFrame

\* line 372
IdleStartSet ==
    /\ wr.pc = "start_set"
    /\ se' = [se EXCEPT ![1][0].cg_idle_start = wr.clock]
    /\ wr' = [wr EXCEPT !.pc = "start_end"]
    /\ UNCHANGED <<rd, stableSeen, readVars, fuel>>
    /\ SeqFrame

\* line 393
IdleEndRead ==
    /\ wr.pc = "end_read"
    /\ wr' = [wr EXCEPT !.pc = "end_add", !.idle_start = SeqSe.cg_idle_start]
    /\ UNCHANGED <<se, rd, stableSeen, readVars, fuel>>
    /\ SeqFrame

\* line 394
IdleEndAdd ==
    /\ wr.pc = "end_add"
    /\ se' = [se EXCEPT ![1][0].cg_idle_sum =
                 U64Add(@, U64Sub(wr.clock, wr.idle_start))]
    /\ wr' = [wr EXCEPT !.pc = "end_clear"]
    /\ UNCHANGED <<rd, stableSeen, readVars, fuel>>
    /\ SeqFrame

\* line 395
IdleEndClear ==
    /\ wr.pc = "end_clear"
    /\ se' = [se EXCEPT ![1][0].cg_idle_start = 0]
    /\ wr' = [wr EXCEPT !.pc = "end_end"]
    /\ UNCHANGED <<rd, stableSeen, readVars, fuel>>
    /\ SeqFrame

\* lines 373 and 396
write_seqcount_end ==
    /\ wr.pc \in {"start_end", "end_end"}
    /\ se' = [se EXCEPT ![1][0].idle_seqcount = @ + 1]
    /\ wr' = [wr EXCEPT !.pc = IF wr.pc = "start_end" THEN "start_iowait"
                                ELSE "end_iowait"]
    /\ stableSeen' = IF InReadLoop THEN stableSeen \cup {IdlePair(SeqSe)}
                      ELSE stableSeen
    /\ UNCHANGED <<rd, readVars, fuel>>
    /\ SeqFrame

\* lines 375-378 and 398-404: the section under iowait_lock
IowaitSection ==
    /\ wr.pc \in {"start_iowait", "end_iowait"}
    /\ se' = [se EXCEPT ![1][0] =
                 IF @.cg_nr_iowait = 0 THEN @
                 ELSE IF wr.pc = "start_iowait"
                 THEN [@ EXCEPT !.cg_iowait_start = wr.clock]
                 ELSE [@ EXCEPT !.cg_iowait_sum =
                                    U64Add(@, U64Sub(wr.clock,
                                                     SeqSe.cg_iowait_start)),
                                !.cg_iowait_start = 0]]
    /\ wr' = WrOut
    /\ UNCHANGED <<rd, stableSeen, readVars, fuel>>
    /\ SeqFrame

\* line 490: the reader enters the branch of the idle window
ReaderCall ==
    /\ rd.pc = "out"
    /\ schedstat
    /\ rd' = [RdOut EXCEPT !.pc = "r_begin"]
    /\ UNCHANGED <<se, wr, stableSeen, readVars, fuel>>
    /\ SeqFrame

\* line 497: read_seqcount_begin returns once the count it read is even
read_seqcount_begin ==
    /\ rd.pc = "r_begin"
    /\ SeqSe.idle_seqcount % 2 = 0
    /\ rd' = [rd EXCEPT !.pc = "r_sum", !.seq = SeqSe.idle_seqcount]
    /\ stableSeen' = IF InWriteSection THEN {} ELSE {IdlePair(SeqSe)}
    /\ UNCHANGED <<se, wr, readVars, fuel>>
    /\ SeqFrame

\* line 498
ReadIdleSum ==
    /\ rd.pc = "r_sum"
    /\ rd' = [rd EXCEPT !.pc = "r_start", !.sum = SeqSe.cg_idle_sum,
                         !.idle = SeqSe.cg_idle_sum]
    /\ UNCHANGED <<se, wr, stableSeen, readVars, fuel>>
    /\ SeqFrame

\* line 499
ReadIdleStart ==
    /\ rd.pc = "r_start"
    /\ rd' = [rd EXCEPT !.pc = "r_clock", !.idle_start = SeqSe.cg_idle_start]
    /\ UNCHANGED <<se, wr, stableSeen, readVars, fuel>>
    /\ SeqFrame

\* lines 500-502
ReadClock ==
    /\ rd.pc = "r_clock"
    /\ rd' = [rd EXCEPT !.pc = "r_retry", !.clock = clock,
                         !.idle = IF rd.idle_start # 0 /\ clock > rd.idle_start
                                  THEN U64Add(@, clock - rd.idle_start)
                                  ELSE @]
    /\ UNCHANGED <<se, wr, stableSeen, readVars, fuel>>
    /\ SeqFrame

\* the retry test answered "no retry" whatever happened to the count
read_seqcount_retry_M(count, seq) == FALSE

\* the retry test answered "retry" whatever the count
read_seqcount_retry_T(count, seq) == TRUE

\* line 503: read_seqcount_retry(&se->idle_seqcount, seq)
read_seqcount_retry(count, seq) == count # seq

\* line 503: the end of the loop body
LoopTest ==
    /\ rd.pc = "r_retry"
    /\ rd' = IF read_seqcount_retry(SeqSe.idle_seqcount, rd.seq)
             THEN [rd EXCEPT !.pc = "r_begin", !.retried = TRUE]
             ELSE [rd EXCEPT !.pc = "r_done"]
    /\ stableSeen' = IF read_seqcount_retry(SeqSe.idle_seqcount, rd.seq)
                      THEN {} ELSE stableSeen
    /\ UNCHANGED <<se, wr, readVars, fuel>>
    /\ SeqFrame

\* lines 505-524: the rest of the branch, from the values the loop left
ReaderFinish ==
    /\ rd.pc = "r_done"
    /\ LET e == SeqSe
           ineff == IF e.cg_ineffective_start # 0
                    THEN U64Add(e.cg_ineffective_sum,
                                U64Sub(rd.clock, e.cg_ineffective_start))
                    ELSE e.cg_ineffective_sum
           iowait == IF e.cg_iowait_start # 0
                     THEN U64Add(e.cg_iowait_sum,
                                 U64Sub(rd.clock, e.cg_iowait_start))
                     ELSE e.cg_iowait_sum
           elapse == U64Sub(rd.clock, e.cg_init_time)
           complement == U64Add(U64Add(rd.idle, e.sum_exec_raw), ineff)
       IN  res' = [res EXCEPT !.idle = U64Sub(rd.idle, iowait),
                              !.iowait = iowait,
                              !.steal = IF elapse > complement
                                        THEN elapse - complement ELSE 0]
    /\ rd' = RdOut
    /\ stableSeen' = {}
    /\ UNCHANGED <<se, wr, prev1, prev2, last, fuel>>
    /\ SeqFrame

\* --------------------------- cpuacct_cpuset_changed, one access at a time
\* A controller on another CPU runs cpuacct_cpuset_changed for group 1 with
\* CPU 0 in one of its masks: under rcu_read_lock alone it calls
\* cgroup_idle_start or cgroup_idle_end on se[1][0] and then updates the
\* ineffective window.  The increment of the count, which the owner may be
\* doing too, is a load and a store.
CtlFrame ==
    UNCHANGED <<parent, usages, cpustat, ret, histVars, tg, clock, schedstat,
                alistats, hk, show, fault, migrated, alloc, race, seqVars,
                readVars>>

\* the controller is between its write_seqcount_begin and write_seqcount_end
CtlInWriteSection ==
    ctl.pc \in {"start_set", "start_end", "start_end_st", "end_read",
                "end_add", "end_clear", "end_end", "end_end_st"}

\* lines 414-427 and 438-440, with lines 366-369 / 387-390 of the callee
CtlCall(added) ==
    /\ ctl.pc = "out"
    /\ fuel > 0
    /\ fuel' = fuel - 1
    /\ ctl' = IF ~schedstat \/ tg[1] = NULL THEN ctl
              ELSE [CtlOut EXCEPT !.pc = IF added THEN "start_begin"
                                         ELSE "end_begin",
                                  !.clock = clock, !.added = added]
    /\ UNCHANGED se
    /\ CtlFrame

\* lines 371, 373, 392 and 396: the load of s->sequence++
CtlSeqLoad ==
    /\ ctl.pc \in {"start_begin", "start_end", "end_begin", "end_end"}
    /\ ctl' = [ctl EXCEPT !.seq = SeqSe.idle_seqcount,
                          !.pc = IF ctl.pc = "start_begin" THEN "start_begin_st"
                                 ELSE IF ctl.pc = "start_end" THEN "start_end_st"
                                 ELSE IF ctl.pc = "end_begin" THEN "end_begin_st"
                                 ELSE "end_end_st"]
    /\ UNCHANGED <<se, fuel>>
    /\ CtlFrame

\* lines 371, 373, 392 and 396: the store of s->sequence++
CtlSeqStore ==
    /\ ctl.pc \in {"start_begin_st", "start_end_st", "end_begin_st",
                    "end_end_st"}
    /\ se' = [se EXCEPT ![1][0].idle_seqcount = ctl.seq + 1]
    /\ ctl' = [ctl EXCEPT !.pc = IF ctl.pc = "start_begin_st" THEN "start_set"
                                 ELSE IF ctl.pc = "start_end_st"
                                 THEN "start_iowait"
                                 ELSE IF ctl.pc = "end_begin_st" THEN "end_read"
                                 ELSE "end_iowait"]
    /\ UNCHANGED fuel
    /\ CtlFrame

\* line 372
CtlIdleStartSet ==
    /\ ctl.pc = "start_set"
    /\ se' = [se EXCEPT ![1][0].cg_idle_start = ctl.clock]
    /\ ctl' = [ctl EXCEPT !.pc = "start_end"]
    /\ UNCHANGED fuel
    /\ CtlFrame

\* line 393
CtlIdleEndRead ==
    /\ ctl.pc = "end_read"
    /\ ctl' = [ctl EXCEPT !.pc = "end_add",
                          !.idle_start = SeqSe.cg_idle_start]
    /\ UNCHANGED <<se, fuel>>
    /\ CtlFrame

\* line 394
CtlIdleEndAdd ==
    /\ ctl.pc = "end_add"
    /\ se' = [se EXCEPT ![1][0].cg_idle_sum =
                 U64Add(@, U64Sub(ctl.clock, ctl.idle_start))]
    /\ ctl' = [ctl EXCEPT !.pc = "end_clear"]
    /\ UNCHANGED fuel
    /\ CtlFrame

\* line 395
CtlIdleEndClear ==
    /\ ctl.pc = "end_clear"
    /\ se' = [se EXCEPT ![1][0].cg_idle_start = 0]
    /\ ctl' = [ctl EXCEPT !.pc = "end_end"]
    /\ UNCHANGED fuel
    /\ CtlFrame

\* lines 375-378 and 398-404: the section under iowait_lock
CtlIowaitSection ==
    /\ ctl.pc \in {"start_iowait", "end_iowait"}
    /\ se' = [se EXCEPT ![1][0] =
                 IF @.cg_nr_iowait = 0 THEN @
                 ELSE IF ctl.pc = "start_iowait"
                 THEN [@ EXCEPT !.cg_iowait_start = ctl.clock]
                 ELSE [@ EXCEPT !.cg_iowait_sum =
                                    U64Add(@, U64Sub(ctl.clock,
                                                     SeqSe.cg_iowait_start)),
                                !.cg_iowait_start = 0]]
    /\ ctl' = [ctl EXCEPT !.pc = "ineffective"]
    /\ UNCHANGED fuel
    /\ CtlFrame

\* lines 429-432 and 442-444: the ineffective window, and the return
CtlIneffective ==
    /\ ctl.pc = "ineffective"
    /\ se' = [se EXCEPT ![1][0] =
                 IF ctl.added
                 THEN [@ EXCEPT !.cg_ineffective_sum =
                                    U64Add(@, U64Sub(clock,
                                               SeqSe.cg_ineffective_start)),
                                !.cg_ineffective_start = 0]
                 ELSE [@ EXCEPT !.cg_ineffective_start = clock]]
    /\ ctl' = CtlOut
    /\ UNCHANGED fuel
    /\ CtlFrame

\* ------------------------------------------------------------------------ Init
InitAcct ==
    /\ parent \in Trees
    /\ usages = [g \in Groups |-> [c \in Cpus |-> ZeroUsage]]
    /\ cpustat = [g \in Groups |-> [c \in Cpus |-> ZeroStat]]
    /\ prev1 = [g \in Groups |-> [c \in Cpus |-> ZeroPrev]]
    /\ prev2 = [g \in Groups |-> [c \in Cpus |-> ZeroPrev]]
    /\ res = ZeroRes
    /\ last = [g \in Groups |->
                 [c \in Cpus |-> [user |-> 0, nice |-> 0, system |-> 0]]]
    /\ ret = 0
    /\ charged = [g \in Groups |-> ZeroUsage]
    /\ wasReset = {}
    /\ clean = {}
    /\ alistats = [g \in Groups |-> [c \in Cpus |-> 0]]
    /\ migrated = [g \in Groups |-> [c \in Cpus |-> 0]]
    /\ show = ZeroShow
    /\ fault = FALSE
    /\ alloc = NoAlloc
    /\ ctl = CtlOut

InitWin ==
    /\ tg = [g \in NonRoot |-> g]
    /\ se = [g \in NonRoot |-> [c \in Cpus |-> ZeroSe]]
    /\ clock = 0
    /\ wr = WrOut
    /\ rd = RdOut
    /\ stableSeen = {}

Init ==
    /\ InitAcct
    /\ InitWin
    /\ hk = Cpus
    /\ race = RaceOut
    /\ schedstat = TRUE
    /\ fuel = MaxOps

Charge ==
    \E ca \in Groups, user \in BOOLEAN, cpu \in Cpus, x \in Amounts :
        cpuacct_charge(ca, user, cpu, x)

Write ==
    \E ca \in Groups, val \in 0 .. MaxAmt : cpuusage_write(ca, val)

AccountField ==
    \E ca \in Groups, cpu \in Cpus, f \in CpuTimeFields, x \in Amounts :
        cpuacct_account_field(ca, cpu, f, x)

\* Charges and writes of the usage banks.
Next == Charge \/ Write

Spec == Init /\ [][Next]_vars

\* Charges of the cpustat banks.
FieldNext == AccountField

FieldSpec == Init /\ [][FieldNext]_vars

\* The reconciler: tasks of the innermost group 2 run on CPU 0 and are charged
\* execution time and ticks there; every group is reset and read on every CPU.
ReconCharge ==
    \E user \in BOOLEAN, x \in Amounts : cpuacct_charge(2, user, 0, x)

ReconTick ==
    \E f \in TickFields : cpuacct_account_field(2, 0, f, 1)

Reset == \E ca \in NonRoot : cpuusage_write(ca, 0)

Read ==
    \E ca \in NonRoot, cpu \in Cpus : cpuacct_get_usage_result(ca, cpu)

ReconNext == ReconCharge \/ ReconTick \/ Reset \/ Read

ReconSpec == Init /\ [][ReconNext]_vars

\* The windows of the entities of group 1's task group on every CPU, and the
\* clock.  A snapshot of an entity is WindowResult of its state and the clock.
WindowInit ==
    /\ InitAcct
    /\ InitWin
    /\ hk = Cpus
    /\ race = RaceOut
    /\ schedstat \in BOOLEAN
    /\ fuel = MaxOps

IdleStartOp == \E cpu \in Cpus : cgroup_idle_start(1, cpu)

IdleEndOp == \E cpu \in Cpus : cgroup_idle_end(1, cpu)

\* the cpuset code hands over the CPUs that left and the CPUs that joined the
\* cgroup's mask: two disjoint sets, not both empty
CpusetChanged ==
    \E deleted \in SUBSET Cpus, added \in SUBSET Cpus :
        /\ deleted \cap added = {}
        /\ deleted \cup added # {}
        /\ cpuacct_cpuset_changed(1, deleted, added)

NrIowaitOp == \E cpu \in Cpus : NrIowait(1, cpu)

ExecRawOp == \E cpu \in Cpus : ExecRaw(1, cpu, 1)

WindowNext ==
    \/ Tick
    \/ CpusetChanged
    \/ IdleStartOp
    \/ IdleEndOp
    \/ NrIowaitOp
    \/ ExecRawOp

WindowSpec == WindowInit /\ [][WindowNext]_vars

\* One entity, se[1][0], through one operation more: the scheduler of CPU 0
\* opens and closes its idle window, its tasks start and end waits for I/O
\* and run, and the cpuset code adds or deletes CPU 0.
EntityInit ==
    /\ InitAcct
    /\ InitWin
    /\ hk = Cpus
    /\ race = RaceOut
    /\ schedstat = TRUE
    /\ fuel = MaxOps + 1

EntityCpuset ==
    \/ cpuacct_cpuset_changed(1, {0}, {})
    \/ cpuacct_cpuset_changed(1, {}, {0})

EntityNext ==
    \/ Tick
    \/ EntityCpuset
    \/ cgroup_idle_start(1, 0)
    \/ cgroup_idle_end(1, 0)
    \/ NrIowait(1, 0)
    \/ ExecRaw(1, 0, 1)

EntitySpec == EntityInit /\ [][EntityNext]_vars

\* The owner of se[1][0] opening and closing its idle window while another CPU
\* reads it, one memory access at a time.
IdleCallOp == \E end \in BOOLEAN : IdleCall(end)

SeqWriter ==
    \/ IdleCallOp
    \/ write_seqcount_begin
    \/ IdleStartSet
    \/ IdleEndRead
    \/ IdleEndAdd
    \/ IdleEndClear
    \/ write_seqcount_end
    \/ IowaitSection

SeqReader ==
    \/ ReaderCall
    \/ read_seqcount_begin
    \/ ReadIdleSum
    \/ ReadIdleStart
    \/ ReadClock
    \/ LoopTest
    \/ ReaderFinish

SeqNext == Tick \/ SeqWriter \/ SeqReader

SeqSpec == Init /\ [][SeqNext]_vars

\* The same under scheduling: the owner holds its rq lock with interrupts off
\* from write_seqcount_begin to write_seqcount_end, so a section it started
\* completes; the reader spins in its loop without sleeping, so it keeps
\* taking steps.  The calls themselves, the clock and the reader's entry and
\* exit are not forced.
WriteSectionStep ==
    \/ write_seqcount_begin
    \/ IdleStartSet
    \/ IdleEndRead
    \/ IdleEndAdd
    \/ IdleEndClear
    \/ write_seqcount_end

ReadLoopStep ==
    \/ read_seqcount_begin
    \/ ReadIdleSum
    \/ ReadIdleStart
    \/ ReadClock
    \/ LoopTest

FairSeqSpec ==
    SeqSpec /\ WF_vars(WriteSectionStep) /\ WF_vars(ReadLoopStep)

\* The owner of se[1][0] and a controller changing the CPUs of group 1, both
\* calling cgroup_idle_start and cgroup_idle_end on the entity.
CtlCallOp == \E added \in BOOLEAN : CtlCall(added)

CtlWriter ==
    \/ CtlCallOp
    \/ CtlSeqLoad
    \/ CtlSeqStore
    \/ CtlIdleStartSet
    \/ CtlIdleEndRead
    \/ CtlIdleEndAdd
    \/ CtlIdleEndClear
    \/ CtlIowaitSection
    \/ CtlIneffective

CtlNext == Tick \/ SeqWriter \/ CtlWriter

CtlSpec == Init /\ [][CtlNext]_vars

\* The same, with tasks of the entity starting and ending waits for I/O on
\* the owning CPU between its calls.
SeqNrIowait ==
    /\ wr.pc = "out"
    /\ NrIowait(1, 0)

IoSeqNext == SeqNext \/ SeqNrIowait

IoSeqSpec == Init /\ [][IoSeqNext]_vars

\* Migrations of tasks of every group on every CPU, and proc_stat reads of
\* every group from every CPU, for every set of housekeeping CPUs (the boot
\* CPU is always one).
MigInit ==
    /\ InitAcct
    /\ InitWin
    /\ hk \in {h \in SUBSET Cpus : 0 \in h}
    /\ race = RaceOut
    /\ schedstat = TRUE
    /\ fuel = MaxOps

Migrate ==
    \E ca \in Groups, cpu \in Cpus : task_ca_increase_nr_migrations(ca, cpu)

Show == \E ca \in Groups, cpu \in Cpus : cpuacct_proc_stats_show(ca, cpu)

MigNext == Migrate \/ Show

MigSpec == MigInit /\ [][MigNext]_vars

\* The cursors: tasks of the innermost group 2 run on both CPUs and are
\* charged execution time and ticks there; groups are reset, and proc_stat
\* reads of every group run on every CPU, for every set of housekeeping CPUs.
CursorCharge ==
    \E user \in BOOLEAN, cpu \in Cpus : cpuacct_charge(2, user, cpu, 1)

CursorTick ==
    \E cpu \in Cpus, f \in {"USER", "SYSTEM"} :
        cpuacct_account_field(2, cpu, f, 1)

CursorNext == CursorCharge \/ CursorTick \/ Reset \/ Show

CursorSpec == MigInit /\ [][CursorNext]_vars

\* A charge of a task of group 1 on CPU 0 against a reset of group 1 from
\* another CPU, in a build with and in a build without CONFIG_64BIT, from
\* the counters that earlier charges of p left.
RaceInit ==
    /\ InitAcct
    /\ InitWin
    /\ hk = Cpus
    /\ race \in {[RaceOut EXCEPT !.config64 = b] : b \in BOOLEAN}
    /\ schedstat = TRUE
    /\ fuel = MaxOps

RacePre ==
    \E user \in BOOLEAN, cpu \in Cpus, x \in Amounts :
        /\ race.cpc = "out" /\ race.wpc = "out"
        /\ cpuacct_charge(1, user, cpu, x)

RaceCharge ==
    \/ \E user \in BOOLEAN, x \in Amounts : ChargeEnter(user, x)
    \/ ChargeLoad
    \/ ChargeStore

RaceWrite == WriteEnter \/ WriteLock \/ WriteStore

RaceNext == RacePre \/ RaceCharge \/ RaceWrite

RaceSpec == RaceInit /\ [][RaceNext]_vars

\* Group creation, with every allocation failing or none, next to the charges
\* of the existing groups.
CssAlloc ==
    \E parent_css \in Groups \cup {NULL},
       failed \in AllocObjects \cup {"none"} :
        cpuacct_css_alloc(parent_css, failed)

AllocNext == CssAlloc \/ Charge \/ Migrate

AllocSpec == Init /\ [][AllocNext]_vars

\* Charges, ticks and migrations of tasks that have no group, next to those
\* of tasks of group 2, and reads of groups whose cgroup may have no task
\* group.
NullInit ==
    /\ InitAcct
    /\ tg \in [NonRoot -> NonRoot \cup {NULL}]
    /\ \A g \in NonRoot : tg[g] \in {g, NULL}
    /\ se = [g \in NonRoot |-> [c \in Cpus |-> ZeroSe]]
    /\ clock = 0
    /\ wr = WrOut
    /\ rd = RdOut
    /\ stableSeen = {}
    /\ hk = Cpus
    /\ race = RaceOut
    /\ schedstat = TRUE
    /\ fuel = MaxOps

NullCharge ==
    \E ca \in {NULL, 2}, user \in BOOLEAN, cpu \in Cpus :
        cpuacct_charge(ca, user, cpu, 1)

NullAccountField ==
    \E ca \in {NULL, 2}, cpu \in Cpus :
        cpuacct_account_field(ca, cpu, "USER", 1)

NullMigrate ==
    \E ca \in {NULL, 2}, cpu \in Cpus :
        task_ca_increase_nr_migrations(ca, cpu)

NullNext == NullCharge \/ NullAccountField \/ NullMigrate \/ Read

NullSpec == NullInit /\ [][NullNext]_vars

\* ====================================================================== claims
AllStats == Stats \cup {CPUACCT_STAT_NSTATS}

\* the amounts charged to tasks whose innermost group is l, by category
ChargedIn(l, index) ==
    IF index = CPUACCT_STAT_NSTATS
    THEN charged[l][CPUACCT_STAT_USER] + charged[l][CPUACCT_STAT_SYSTEM]
    ELSE charged[l][index]

\* the amounts charged to group g: to tasks of g and of the groups below it
ChargedTo(g, index) ==
    SumOver({l \in Groups : g \in AncOrSelf(l)},
            [l \in Groups |-> ChargedIn(l, index)])

\* C1: with no reset of the group, the total __cpuusage_read returns for a
\* category (and for the sum of the categories) is exactly the sum of the
\* amounts charged to the group in that category, whatever CPUs the charges
\* ran on: no charge is lost, none is counted twice.
C1_NoChargeLostOrDoubled ==
    \A g \in Groups \ wasReset, index \in AllStats :
        cpuusage_read(g, index) = ChargedTo(g, index)

\* C1's case: MaxOps charges, on both CPUs and in both categories, to a group
\* below another group, and no reset.
C1_Witness ==
    /\ wasReset = {}
    /\ fuel = 0
    /\ \E g \in NonRoot :
        /\ parent[g] # Root
        /\ charged[g][CPUACCT_STAT_USER] > 0
        /\ charged[g][CPUACCT_STAT_SYSTEM] > 0
        /\ \A cpu \in Cpus : cpuacct_cpuusage_read(Root, cpu, CPUACCT_STAT_NSTATS) > 0

\* C2: a charge of x for a task of group l adds exactly x to the usage read
\* for the charged category, and for the total, of l and of every ancestor of
\* l up to the root, and changes no counter of any other group.
C2_ChargePropagates ==
    [][\A l \in Groups, user \in BOOLEAN, cpu \in Cpus, x \in Amounts :
         cpuacct_charge(l, user, cpu, x) =>
            LET index == IF user THEN CPUACCT_STAT_USER
                         ELSE CPUACCT_STAT_SYSTEM
            IN  \A g \in Groups :
                    IF g \in AncOrSelf(l)
                    THEN /\ cpuusage_read(g, index)' =
                                cpuusage_read(g, index) + x
                         /\ cpuusage_read(g, CPUACCT_STAT_NSTATS)' =
                                cpuusage_read(g, CPUACCT_STAT_NSTATS) + x
                    ELSE usages'[g] = usages[g]]_vars

\* C2's case: a task of a group two levels below the root was charged, and the
\* other group, the root and the task's group hold the charge.
C2_Witness ==
    \E l \in NonRoot :
        /\ parent[l] \in NonRoot
        /\ \E index \in Stats :
            /\ charged[l][index] > 0
            /\ cpuusage_read(l, index) > 0
            /\ cpuusage_read(parent[l], index) > 0
            /\ cpuusage_read(Root, index) > 0

\* C3: for the machine-wide categories (irq, softirq, guest, guest_nice)
\* cpuacct_account_field adds the amount to the cpustat of the task's group
\* and of each ancestor below the root, on the charging CPU, and leaves the
\* root's cpustat (kernel_cpustat) as it was, for every task and every tree.
C3_FieldStopsBelowRoot ==
    [][\A l \in Groups, cpu \in Cpus, f \in WideFields, x \in Amounts :
         cpuacct_account_field(l, cpu, f, x) =>
            /\ cpustat'[Root] = cpustat[Root]
            /\ \A g \in NonRoot :
                cpustat'[g] =
                    IF g \in AncOrSelf(l)
                    THEN [cpustat[g] EXCEPT ![cpu][f] = @ + x]
                    ELSE cpustat[g]]_vars

\* C3's case: a task two levels below the root was charged irq or guest time:
\* its group and its parent hold it, the root's cpustat is still zero.
C3_Witness ==
    \E l \in NonRoot, cpu \in Cpus, f \in WideFields :
        /\ parent[l] \in NonRoot
        /\ cpustat[l][cpu][f] > 0
        /\ cpustat[parent[l]][cpu][f] >= cpustat[l][cpu][f]
        /\ cpustat[Root] = [c \in Cpus |-> ZeroStat]

\* C9: cpuusage_write with a value other than 0 returns -EINVAL and changes
\* no per-CPU counter, cursor or window of any group.
C9_NonZeroWriteRejected ==
    [][\A ca \in Groups, val \in Amounts :
         cpuusage_write(ca, val) =>
            /\ ret' = -EINVAL
            /\ UNCHANGED <<usages, cpustat, prev1, prev2, se>>]_vars

\* C9's case: a non-zero write was rejected while the group had usage.
C9_Witness ==
    /\ ret = -EINVAL
    /\ \E g \in NonRoot : cpuusage_read(g, CPUACCT_STAT_NSTATS) > 0

\* the total execution time of an entity, the reconciler's rtime
RawTotal(ca, cpu) ==
    usages[ca][cpu][CPUACCT_STAT_USER] + usages[ca][cpu][CPUACCT_STAT_SYSTEM]

\* C4: across any sequence of snapshot reads interleaved with charges and
\* ticks, each of system, user and nice returned for a (CPU, group) is at
\* least the value the previous read of that (CPU, group) returned.
C4_ReconcilerMonotonic ==
    [][\A ca \in NonRoot, cpu \in Cpus :
         /\ last'[ca][cpu].system >= last[ca][cpu].system
         /\ last'[ca][cpu].user >= last[ca][cpu].user
         /\ last'[ca][cpu].nice >= last[ca][cpu].nice]_vars

\* C4's case: with no reset, an entity was read, then ticked, and the share
\* the ticks now give the user side is below the share already returned: the
\* next read has to clamp.
C4_Witness ==
    /\ wasReset = {}
    /\ \E ca \in NonRoot, cpu \in Cpus :
        LET k == cpustat[ca][cpu] IN
        /\ last[ca][cpu].user > 0
        /\ RawTotal(ca, cpu) >= prev1[ca][cpu].utime + prev1[ca][cpu].stime
        /\ cputime_adjust(RawTotal(ca, cpu), k["USER"] + k["NICE"],
                          k["SYSTEM"], ZeroPrev).utime < prev1[ca][cpu].utime

\* C10: after a reset of a group with no charge since, every read of the group
\* is zero: the usage reads (total, user, system, per CPU) and the user, nice
\* and system a snapshot read of the group would return on every CPU.
C10_ResetThenReadIsZero ==
    \A g \in clean \cap NonRoot :
        /\ \A index \in AllStats :
            /\ cpuusage_read(g, index) = 0
            /\ \A cpu \in Cpus : cpuacct_cpuusage_read(g, cpu, index) = 0
        /\ \A cpu \in Cpus :
            /\ Reconcile(g, cpu).user = 0
            /\ Reconcile(g, cpu).nice = 0
            /\ Reconcile(g, cpu).system = 0

\* ------------------------------------------------------------ claims: windows
IdleOpen(e) == e.cg_idle_start # 0

IowaitOpen(e) == e.cg_iowait_start # 0

IneffOpen(e) == e.cg_ineffective_start # 0

SnapshotIdle(cpu) == WindowResult(se[1][cpu], clock).idle

\* what it reports as io-wait
SnapshotIowait(cpu) == WindowResult(se[1][cpu], clock).iowait

\* the idle window of cpu closed at h_e, having been opened at h_s: the idle
\* sum grew by h_e - h_s and the snapshot reports that sum whatever the clock
ClosedWindowFixed(cpu) ==
    LET e == se[1][cpu] IN
    schedstat /\ e.h_done /\ SnapshotIowait(cpu) = 0 =>
        /\ e.cg_idle_sum = e.h_base + (e.h_e - e.h_s)
        /\ SnapshotIdle(cpu) = e.h_base + (e.h_e - e.h_s)

\* C7 as stated: for every opening timestamp s in the clock's range, while
\* the window opened at s is open a snapshot at now > s reports the idle sum
\* extended by now - s; after cgroup_idle_end at e the sum has grown by e - s
\* and every later snapshot reports that value (io-wait being zero).
C7_IdleWindowAccounting ==
    \A cpu \in Cpus :
        LET e == se[1][cpu] IN
        /\ schedstat /\ e.h_open /\ clock > e.h_s
               /\ SnapshotIowait(cpu) = 0 =>
               SnapshotIdle(cpu) = e.h_base + (clock - e.h_s)
        /\ ClosedWindowFixed(cpu)

\* C7, amended: the same for every opening timestamp s other than 0 (a start
\* timestamp of 0 is how the entity records a closed window).
C7_IdleWindowAccountingFromOne ==
    \A cpu \in Cpus :
        LET e == se[1][cpu] IN
        /\ schedstat /\ e.h_open /\ e.h_s # 0 /\ clock > e.h_s
               /\ SnapshotIowait(cpu) = 0 =>
               SnapshotIdle(cpu) = e.h_base + (clock - e.h_s)
        /\ ClosedWindowFixed(cpu)

\* C7's case: one entity's window opened at s > 0 is open at a later time,
\* another entity's window opened at s > 0 was closed later and time passed.
C7_Witness ==
    /\ schedstat
    /\ \E c1 \in Cpus, c2 \in Cpus :
        /\ se[1][c1].h_open /\ se[1][c1].h_s > 0 /\ clock > se[1][c1].h_s
        /\ SnapshotIowait(c1) = 0 /\ SnapshotIdle(c1) > 0
        /\ se[1][c2].h_done /\ se[1][c2].h_s > 0
        /\ se[1][c2].h_e > se[1][c2].h_s /\ clock > se[1][c2].h_e

\* the time of the entity the clock has seen
Elapsed(e) == clock - e.cg_init_time

\* the idle sum of a snapshot before the io-wait was taken out of it
IdleBeforeIowait(e) ==
    LET w == WindowResult(e, clock) IN U64Add(w.idle, w.iowait)

\* the ineffective time at the clock: the sum, and the open window
IneffectiveNow(e) ==
    e.cg_ineffective_sum
        + (IF e.cg_ineffective_start # 0
           THEN clock - e.cg_ineffective_start ELSE 0)

\* C8: the steal of a snapshot is max(0, elapsed - idle - rawExec -
\* ineffective), idle being the idle sum before io-wait is subtracted; it is
\* zero whenever elapsed <= idle + rawExec + ineffective, and never negative.
C8_StealIsClampedRemainder ==
    schedstat =>
        \A cpu \in Cpus :
            LET e == se[1][cpu]
                steal == WindowResult(e, clock).steal
                accounted == IdleBeforeIowait(e) + e.sum_exec_raw
                                 + IneffectiveNow(e)
            IN  /\ steal = Max(0, Elapsed(e) - accounted)
                /\ Elapsed(e) <= accounted => steal = 0
                /\ steal >= 0

\* C8's case: one entity with idle time, io-wait inside it and steal left
\* over; another whose idle and ineffective time fill the elapsed time, so
\* that its steal is zero.
C8_Witness ==
    /\ schedstat
    /\ \E c1 \in Cpus, c2 \in Cpus :
        /\ WindowResult(se[1][c1], clock).steal > 0
        /\ WindowResult(se[1][c1], clock).iowait > 0
        /\ IdleBeforeIowait(se[1][c1]) > 0
        /\ clock > 0
        /\ IneffectiveNow(se[1][c2]) > 0
        /\ WindowResult(se[1][c2], clock).steal = 0

C11_MigrationsCountedOnEveryCpu ==
    \A g \in Groups :
        proc_stat_nr_migrations(g) = SumOver(Cpus, migrated[g])

\* C12: a charge, a tick charge or a migration charge for a task with no
\* group (task_ca returns NULL) and a read of a group with no task group
\* never fail and change nothing: no NULL pointer is dereferenced, the
\* counters hold what the tasks with a group were charged, and the read
\* returns zeros and leaves the cursors alone.
C12_NoGroupIsNoOp ==
    /\ ~fault
    /\ \A g \in Groups, index \in AllStats :
           cpuusage_read(g, index) = ChargedTo(g, index)
    /\ alistats = migrated
    /\ \A ca \in NonRoot, cpu \in Cpus :
           tg[ca] = NULL =>
               /\ UsageResult(ca, cpu) = ZeroRes
               /\ prev1[ca][cpu] = ZeroPrev /\ prev2[ca][cpu] = ZeroPrev

\* ------------------------------------------- claims: the snapshot under races
\* the io-wait sum the reader computes when it has left the loop
FinishIowait ==
    IF SeqSe.cg_iowait_start # 0
    THEN SeqSe.cg_iowait_sum + (rd.clock - SeqSe.cg_iowait_start)
    ELSE SeqSe.cg_iowait_sum

\* C13: under every interleaving of the reader with cgroup_idle_start and
\* cgroup_idle_end on the owning CPU no field of the snapshot wraps around:
\* each open-window extension clock - start (idle, io-wait, ineffective) is
\* computed with clock >= start, and the idle sum is at least the io-wait sum
\* that is subtracted from it.
C13_SnapshotNeverWraps ==
    rd.pc = "r_done" =>
        /\ rd.idle >= rd.sum
        /\ SeqSe.cg_iowait_start # 0 => rd.clock >= SeqSe.cg_iowait_start
        /\ SeqSe.cg_ineffective_start # 0 =>
               rd.clock >= SeqSe.cg_ineffective_start
        /\ rd.idle >= FinishIowait

\* C14: conservation of elapsed time.  For every snapshot of a non-root
\* (CPU, group) taken with no window mutation in progress, idle (net of
\* io-wait) + io-wait + steal + raw execution time + ineffective time is at
\* least the time elapsed since the entity's init time, and is exactly that
\* time whenever steal > 0.
C14_ElapsedTimeConserved ==
    schedstat =>
        \A cpu \in Cpus :
            LET e == se[1][cpu]
                w == WindowResult(e, clock)
                total == w.idle + w.iowait + w.steal + e.sum_exec_raw
                             + IneffectiveNow(e)
            IN  /\ total >= Elapsed(e)
                /\ w.steal > 0 => total = Elapsed(e)

\* -------------------------------------------------------- claims: creation
\* C15: when an allocation of cpuacct_css_alloc fails, the call returns
\* -ENOMEM, every allocation the call had made is freed exactly once (and
\* nothing else is freed), nothing of the group stays live or reachable, and
\* the counters of the root and of the existing groups are as they were.
C15_FailedAllocCleansUp ==
    /\ [](/\ alloc.failed # "none" <=> alloc.ret = ENOMEM
          /\ alloc.ret = ENOMEM =>
                 /\ \A o \in AllocObjects :
                        alloc.frees[o] = IF o \in alloc.made THEN 1 ELSE 0
                 /\ alloc.live = {}
                 /\ ~alloc.cursors)
    /\ [][\A p \in Groups \cup {NULL}, f \in AllocObjects \cup {"none"} :
            cpuacct_css_alloc(p, f) =>
                UNCHANGED <<parent, usages, cpustat, alistats, prev1,
                            prev2>>]_vars

\* C15's case: counters of existing groups hold charges, and the last
\* allocation of a creation failed after three had been made.
C15_Witness ==
    /\ alloc.ret = ENOMEM
    /\ alloc.failed = "alistats"
    /\ Cardinality(alloc.made) = Len(AllocOrder) - 1
    /\ \E g \in NonRoot : cpuusage_read(g, CPUACCT_STAT_NSTATS) > 0

\* ----------------------------------------------------- claims: reset and charge
\* C16: a reset of CPU 0's counters of a group from another CPU excludes
\* cpuacct_charge on CPU 0: when a reset and a concurrent charge of x to the
\* same counter have both completed, the counter is 0 or x, never the value
\* from before the reset plus x.
C16_ResetExcludesCharge ==
    race.cpc = "done" /\ race.wpc = "done" =>
        usages[1][0][race.index] \in {0, race.x}

\* ------------------------------------------------------------ claims: cursors
\* the step changes a cursor of (ca, cpu)
CursorAdvances(ca, cpu) ==
    \/ prev1'[ca][cpu] # prev1[ca][cpu]
    \/ prev2'[ca][cpu] # prev2[ca][cpu]

InRetryLoop == rd.pc = "r_begin" \/ InReadLoop

C19_SingleWriter ==
    /\ ~(InWriteSection /\ CtlInWriteSection)
    /\ (SeqSe.idle_seqcount % 2 = 1) <=> (InWriteSection \/ CtlInWriteSection)

\* --------------------------------------------------------- claims: window sums
\* the step adds to a window sum of the entity
SumGrows(e, f, kind) == f[kind] # e[kind]

\* the step closes a window that an earlier step opened at start, and adds
\* the time from start to the clock to the sum
ClosesWindow(e, f, kind, wasOpen, isOpen, start) ==
    /\ wasOpen
    /\ ~isOpen
    /\ f[kind] = e[kind] + (clock - start)

\* C20: each accumulated window sum (idle, io-wait, ineffective) grows only
\* by the length of a window of that kind that was opened earlier and is
\* being closed, whatever the sequence of cgroup_idle_start, cgroup_idle_end
\* and cpuacct_cpuset_changed (a close with no window open and an open of an
\* open window included), so that no sum exceeds the time its window was
\* open.
C20_SumGrowsByClosedWindow ==
    [][\A cpu \in Cpus :
          LET e == se[1][cpu]
              f == se'[1][cpu]
          IN  /\ SumGrows(e, f, "cg_idle_sum") =>
                     ClosesWindow(e, f, "cg_idle_sum", e.h_open, f.h_open,
                                  e.cg_idle_start)
              /\ SumGrows(e, f, "cg_iowait_sum") =>
                     ClosesWindow(e, f, "cg_iowait_sum", e.h_io, f.h_io,
                                  e.cg_iowait_start)
              /\ SumGrows(e, f, "cg_ineffective_sum") =>
                     ClosesWindow(e, f, "cg_ineffective_sum", e.h_in, f.h_in,
                                  e.cg_ineffective_start)]_vars

====
